---------------------------- MODULE Spec2Model ----------------------------
(***************************************************************************)
(* Model of the document compliance checker (src/app.py).                  *)
(*                                                                         *)
(* A Python str is modelled as a sequence of one-character strings, so     *)
(* that substring tests, slicing, strip(), split() and rsplit() are        *)
(* computed on the characters as Python computes them.                     *)
(***************************************************************************)
EXTENDS Integers, Sequences, FiniteSets, TLC

(***************************************************************************)
(* Python str operations used by src/app.py.                               *)
(***************************************************************************)
Whitespace == {" ", "\n", "\t"}

UpperCase ==
    <<"A","B","C","D","E","F","G","H","I","J","K","L","M",
      "N","O","P","Q","R","<<",">>T","U","V","W","X","Y","Z">>

LowerCase ==
    <<"a","b","c","d","e","f","g","h","i","j","k","l","m",
      "n","o","p","q","r","s","t","u","v","w","x","y","z">>

UpperToLower ==
    [c \in {UpperCase[k] : k \in 1..26} |->
        LowerCase[CHOOSE k \in 1..26 : UpperCase[k] = c]]

\* str.lower()
lower(s) ==
    [i \in 1..Len(s) |-> IF s[i] \in DOMAIN UpperToLower THEN UpperToLower[s[i]] ELSE s[i]]

\* `w in s` for two str values
Contains(s, w) ==
    \E i \in 1..(Len(s) - Len(w) + 1) : \A j \in 1..Len(w) : s[i + j - 1] = w[j]

\* s[:n], with Python's clamping of the stop index
SliceTo(s, n) ==
    LET stop == IF n >= 0 THEN (IF n < Len(s) THEN n ELSE Len(s))
                ELSE (IF Len(s) + n > 0 THEN Len(s) + n ELSE 0)
    IN  SubSeq(s, 1, stop)

\* str.strip(): leading and trailing whitespace removed
strip(s) ==
    LET keep == {i \in 1..Len(s) : s[i] \notin Whitespace}
    IN  IF keep = {} THEN << >>
        ELSE LET first == CHOOSE i \in keep : \A k \in keep : i <= k
                 last  == CHOOSE i \in keep : \A k \in keep : i >= k
             IN  SubSeq(s, first, last)

\* s.rsplit(sep, 1)[0] for a one-character sep: the part before the last sep,
\* or all of s when sep does not occur
rsplit_head(s, sep) ==
    LET at == {i \in 1..Len(s) : s[i] = sep}
    IN  IF at = {} THEN s
        ELSE SubSeq(s, 1, (CHOOSE i \in at : \A k \in at : i >= k) - 1)

\* str.split(): the maximal runs of non-whitespace characters, in order
RECURSIVE split(_)
split(s) ==
    LET t == strip(s)
    IN  IF t = << >> THEN << >>
        ELSE LET ws  == {i \in 1..Len(t) : t[i] \in Whitespace}
                 cut == IF ws = {} THEN Len(t) + 1
                        ELSE CHOOSE i \in ws : \A k \in ws : i <= k
             IN  <<SubSeq(t, 1, cut - 1)>> \o split(SubSeq(t, cut, Len(t)))

\* sep.join(parts)
RECURSIVE join(_, _)
join(sep, parts) ==
    IF parts = << >> THEN << >>
    ELSE IF Len(parts) = 1 THEN parts[1]
    ELSE parts[1] \o sep \o join(sep, Tail(parts))

\* s repeated k times (builds the sample passages)
RECURSIVE Repeat(_, _)
Repeat(s, k) == IF k = 0 THEN << >> ELSE s \o Repeat(s, k - 1)

\* every str of at most n characters over the alphabet A
StrUpTo(A, n) == UNION {[1..k -> A] : k \in 0..n}

(***************************************************************************)
(* Utility functions                                                       *)
(***************************************************************************)
Ellipsis == <<".",".",".">>

shorten_text_keep_whitespace(text, max_chars) ==
    IF Len(text) <= max_chars THEN text
    ELSE rsplit_head(SliceTo(text, max_chars), ".") \o Ellipsis

shorten_text_off_by_one(text, max_chars) ==
    IF Len(text) <= max_chars THEN text
    ELSE strip(rsplit_head(SliceTo(text, max_chars + 1), ".")) \o Ellipsis

\* def shorten_text(text, max_chars=200)
shorten_text(text, max_chars) ==
    IF Len(text) <= max_chars THEN text
    ELSE LET cut == rsplit_head(SliceTo(text, max_chars), ".")
         IN  strip(cut) \o Ellipsis

\* BeautifulSoup(raw_html, "html.parser") text nodes: the text between tags,
\* a tag being "<" up to the next ">"
RECURSIVE text_nodes(_)
text_nodes(s) ==
    LET lt == {i \in 1..Len(s) : s[i] = "<"}
    IN  IF lt = {} THEN <<s>>
        ELSE LET open == CHOOSE i \in lt : \A k \in lt : i <= k
                 gt   == {i \in (open + 1)..Len(s) : s[i] = ">"}
             IN  IF gt = {} THEN <<s>>
                 ELSE LET close == CHOOSE i \in gt : \A k \in gt : i <= k
                      IN  <<SubSeq(s, 1, open - 1)>>
                              \o text_nodes(SubSeq(s, close + 1, Len(s)))

\* the non-empty stripped strings of a list of text nodes (get_text(strip=True))
RECURSIVE stripped_strings(_)
stripped_strings(nodes) ==
    IF nodes = << >> THEN << >>
    ELSE (IF strip(nodes[1]) = << >> THEN << >> ELSE <<strip(nodes[1])>>)
             \o stripped_strings(Tail(nodes))

\* def clean_html(raw_html): get_text(separator=" ", strip=True)
clean_html(raw_html) == join(<<" ">>, stripped_strings(text_nodes(raw_html)))

(***************************************************************************)
(* Checklists                                                              *)
(***************************************************************************)
AoA == "Articles of Association"

Service == "Service Agreement"

Privacy == "Privacy Policy"

Unknown == "Unknown"

AoAChecklist ==
    << <<"C","o","m","p","a","n","y"," ","n","a","m","e",","," ","t","y","p","e",","," ",
        "a","n","d"," ","r","e","g","i","s","t","e","r","e","d"," ","a","d","d","r",
        "e","s","s"," ","c","l","e","a","r","l","y"," ","s","t","a","t","e","d">>,
       <<"S","h","a","r","e"," ","c","a","p","i","t","a","l"," ","a","n","d"," ","n","u",
        "m","b","e","r"," ","o","f"," ","s","h","a","r","e","s"," ","s","p","e","c",
        "i","f","i","e","d">>,
       <<"R","i","g","h","t","s"," ","a","t","t","a","c","h","e","d"," ","t","o"," ","e",
        "a","c","h"," ","c","l","a","s","s"," ","o","f"," ","s","h","a","r","e","s",
        " ","d","e","s","c","r","i","b","e","d">>,
       <<"S","h","a","r","e"," ","t","r","a","n","s","f","e","r"," ","r","e","s","t","r",
        "i","c","t","i","o","n","s",","," ","i","f"," ","a","n","y",","," ","i","n",
        "c","l","u","d","e","d">>,
       <<"P","r","o","c","e","d","u","r","e","s"," ","f","o","r"," ","s","h","a","r","e",
        "h","o","l","d","e","r"," ","m","e","e","t","i","n","g","s"," ","o","u","t",
        "l","i","n","e","d">>,
       <<"V","o","t","i","n","g"," ","r","i","g","h","t","s"," ","a","n","d"," ","d","e",
        "c","i","s","i","o","n","-","m","a","k","i","n","g"," ","p","r","o","c","e",
        "s","s"," ","e","x","p","l","a","i","n","e","d">>,
       <<"A","p","p","o","i","n","t","m","e","n","t",","," ","r","e","m","o","v","a","l",
        ","," ","a","n","d"," ","p","o","w","e","r","s"," ","o","f"," ","d","i","r",
        "e","c","t","o","r","s"," ","d","e","t","a","i","l","e","d">>,
       <<"D","i","v","i","d","e","n","d"," ","d","i","s","t","r","i","b","u","t","i","o",
        "n"," ","p","o","l","i","c","y"," ","d","e","f","i","n","e","d">>,
       <<"P","r","o","c","e","d","u","r","e","s"," ","f","o","r"," ","a","m","e","n","d",
        "i","n","g"," ","t","h","e"," ","A","r","t","i","c","l","e","s"," ","s","p",
        "e","c","i","f","i","e","d">>,
       <<"W","i","n","d","i","n","g"," ","u","p"," ","o","r"," ","d","i","s","s","o","l",
        "u","t","i","o","n"," ","c","l","a","u","s","e","s"," ","i","n","c","l","u",
        "d","e","d">> >>

ServiceChecklist ==
    << <<"N","a","m","e","s"," ","a","n","d"," ","c","o","n","t","a","c","t"," ","d","e",
        "t","a","i","l","s"," ","o","f"," ","b","o","t","h"," ","p","a","r","t","i",
        "e","s"," ","i","n","c","l","u","d","e","d">>,
       <<"D","e","t","a","i","l","e","d"," ","d","e","s","c","r","i","p","t","i","o","n",
        " ","o","f"," ","s","e","r","v","i","c","e","s"," ","t","o"," ","b","e"," ",
        "p","r","o","v","i","d","e","d">>,
       <<"P","a","y","m","e","n","t"," ","t","e","r","m","s",","," ","s","c","h","e","d",
        "u","l","e",","," ","a","n","d"," ","m","e","t","h","o","d"," ","s","p","e",
        "c","i","f","i","e","d">>,
       <<"S","t","a","r","t"," ","d","a","t","e"," ","a","n","d"," ","d","u","r","a","t",
        "i","o","n"," ","o","f"," ","t","h","e"," ","a","g","r","e","e","m","e","n",
        "t"," ","s","t","a","t","e","d">>,
       <<"T","e","r","m","i","n","a","t","i","o","n"," ","c","l","a","u","s","e","s",",",
        " ","i","n","c","l","u","d","i","n","g"," ","n","o","t","i","c","e"," ","p",
        "e","r","i","o","d",","," ","i","n","c","l","u","d","e","d">>,
       <<"C","o","n","f","i","d","e","n","t","i","a","l","i","t","y"," ","o","b","l","i",
        "g","a","t","i","o","n","s"," ","o","u","t","l","i","n","e","d">>,
       <<"D","i","s","p","u","t","e"," ","r","e","s","o","l","u","t","i","o","n"," ","m",
        "e","c","h","a","n","i","s","m"," ","s","t","a","t","e","d">>,
       <<"G","o","v","e","r","n","i","n","g"," ","l","a","w"," ","s","p","e","c","i","f",
        "i","e","d">>,
       <<"L","i","a","b","i","l","i","t","y"," ","l","i","m","i","t","a","t","i","o","n",
        "s"," ","a","n","d"," ","i","n","d","e","m","n","i","t","i","e","s"," ","i",
        "n","c","l","u","d","e","d">>,
       <<"F","o","r","c","e"," ","m","a","j","e","u","r","e"," ","c","l","a","u","s","e",
        " ","i","n","c","l","u","d","e","d">> >>

PrivacyChecklist ==
    << <<"C","l","e","a","r"," ","s","t","a","t","e","m","e","n","t"," ","o","f"," ","d",
        "a","t","a"," ","c","o","l","l","e","c","t","i","o","n"," ","p","r","a","c",
        "t","i","c","e","s">>,
       <<"T","y","p","e","s"," ","o","f"," ","p","e","r","s","o","n","a","l"," ","d","a",
        "t","a"," ","c","o","l","l","e","c","t","e","d"," ","l","i","s","t","e",
        "d">>,
       <<"P","u","r","p","o","s","e"," ","f","o","r"," ","c","o","l","l","e","c","t","i",
        "n","g"," ","a","n","d"," ","p","r","o","c","e","s","s","i","n","g"," ","d",
        "a","t","a"," ","e","x","p","l","a","i","n","e","d">>,
       <<"L","e","g","a","l"," ","b","a","s","i","s"," ","f","o","r"," ","p","r","o","c",
        "e","s","s","i","n","g"," ","d","a","t","a"," ","s","t","a","t","e","d">>,
       <<"D","a","t","a"," ","r","e","t","e","n","t","i","o","n"," ","p","e","r","i","o",
        "d"," ","s","p","e","c","i","f","i","e","d">>,
       <<"U","s","e","r"," ","r","i","g","h","t","s"," ","u","n","d","e","r"," ","a","p",
        "p","l","i","c","a","b","l","e"," ","l","a","w"," ","d","e","s","c","r","i",
        "b","e","d">>,
       <<"I","n","f","o","r","m","a","t","i","o","n"," ","o","n"," ","t","h","i","r","d",
        "-","p","a","r","t","y"," ","s","h","a","r","i","n","g"," ","i","n","c","l",
        "u","d","e","d">>,
       <<"S","e","c","u","r","i","t","y"," ","m","e","a","s","u","r","e","s"," ","f","o",
        "r"," ","d","a","t","a"," ","p","r","o","t","e","c","t","i","o","n"," ","o",
        "u","t","l","i","n","e","d">>,
       <<"C","o","n","t","a","c","t"," ","d","e","t","a","i","l","s"," ","f","o","r"," ",
        "p","r","i","v","a","c","y"," ","i","n","q","u","i","r","i","e","s"," ","p",
        "r","o","v","i","d","e","d">>,
       <<"P","r","o","c","e","d","u","r","e"," ","f","o","r"," ","p","o","l","i","c","y",
        " ","u","p","d","a","t","e","s"," ","d","e","s","c","r","i","b","e","d">> >>

\* CHECKLISTS = {...}: a dict, keyed by document type
CHECKLISTS == (AoA :> AoAChecklist) @@ (Service :> ServiceChecklist) @@ (Privacy :> PrivacyChecklist)

(***************************************************************************)
(* Core logic: detect_document_type                                        *)
(***************************************************************************)
aoa_keywords ==
    << <<"a","r","t","i","c","l","e","s"," ","o","f"," ","a","s","s","o","c","i","a","t",
        "i","o","n">>, <<"s","h","a","r","e","h","o","l","d","e","r">>,
       <<"b","o","a","r","d"," ","o","f"," ","d","i","r","e","c","t","o","r","s">>, <<"c","o","m","p","a","n","y"," ","c","o","n","s","t","i","t","u","t","i","o","n">> >>

service_keywords ==
    << <<"s","e","r","v","i","c","e"," ","a","g","r","e","e","m","e","n","t">>, <<"s","e","r","v","i","c","e","s"," ","p","r","o","v","i","d","e","d">>,
       <<"p","a","y","m","e","n","t"," ","t","e","r","m","s">>, <<"t","e","r","m","i","n","a","t","i","o","n"," ","c","l","a","u","s","e">> >>

privacy_keywords ==
    << <<"p","r","i","v","a","c","y"," ","p","o","l","i","c","y">>, <<"p","e","r","s","o","n","a","l"," ","d","a","t","a">>,
       <<"d","a","t","a"," ","p","r","o","t","e","c","t","i","o","n">>, <<"u","s","e","r"," ","r","i","g","h","t","s">> >>

\* sum(1 for kw in keywords if kw in text_lower)
keyword_score(keywords, text_lower) ==
    Cardinality({k \in 1..Len(keywords) : Contains(text_lower, keywords[k])})

\* the keys of the dict `scores`, in insertion order
score_keys == <<AoA, Service, Privacy>>

\* the dict `scores`, as the values in the order of score_keys
scores_dict(text) ==
    LET text_lower == lower(text)
    IN  << keyword_score(aoa_keywords, text_lower),
           keyword_score(service_keywords, text_lower),
           keyword_score(privacy_keywords, text_lower) >>

max_last_wins(vals, best, k) ==
    CHOOSE i \in 1..Len(vals) :
        /\ \A j \in 1..Len(vals) : vals[j] <= vals[i]
        /\ \A j \in (i + 1)..Len(vals) : vals[j] < vals[i]

\* max(iterable, key=...): scans in order and keeps the first maximal element
RECURSIVE max_scan(_, _, _)
max_scan(vals, best, k) ==
    IF k > Len(vals) THEN best
    ELSE max_scan(vals, IF vals[k] > vals[best] THEN k ELSE best, k + 1)

\* def detect_document_type(text)
detect_document_type(text) ==
    LET scores == scores_dict(text)
        detected == max_scan(scores, 1, 2)
    IN  IF scores[detected] > 0 THEN score_keys[detected] ELSE Unknown

(***************************************************************************)
(* Core logic: run_checklist                                               *)
(***************************************************************************)
NoCitationFound == <<"N","o"," ","c","i","t","a","t","i","o","n"," ","f","o","u","n","d">>

is_missing_at_threshold(ratio) == ratio <= 70

\* fuzz.partial_ratio(item.lower(), text.lower()) < 70
is_missing(ratio) == ratio < 70

\* fuzz.partial_ratio is a library function of the item and the text; the model
\* draws its value from the two sides of the comparison with 70
FuzzRatios == {69, 70}

\* vectorstore.similarity_search(item, k=1) when it returns: at most one
\* document of the index
similarity_search(store) ==
    IF store = << >> THEN {<< >>} ELSE {<<store[j]>> : j \in 1..Len(store)}

issue_record_blank_on_empty(item, results) ==
    IF results # << >>
    THEN [requirement |-> item,
          citation |-> shorten_text(clean_html(results[1]), 200),
          citation_full |-> clean_html(results[1])]
    ELSE [requirement |-> item, citation |-> << >>, citation_full |-> << >>]

\* the dict appended to `issues` for a missing item, given the search results
issue_record(item, results) ==
    IF results # << >>
    THEN LET raw_citation == clean_html(results[1])
             citation_short == shorten_text(raw_citation, 200)
         IN  [requirement |-> item, citation |-> citation_short,
              citation_full |-> raw_citation]
    ELSE LET raw_citation == NoCitationFound
             citation_short == raw_citation
         IN  [requirement |-> item, citation |-> citation_short,
              citation_full |-> raw_citation]

issues_prepend(issues_so_far, record) == <<record>> \o issues_so_far

\* issues.append({...})
issues_append(issues_so_far, record) == Append(issues_so_far, record)

items_to_check_with_default(dt) ==
    IF dt \in DOMAIN CHECKLISTS THEN CHECKLISTS[dt] ELSE AoAChecklist

\* `if doc_type in CHECKLISTS: for item in CHECKLISTS[doc_type]`: the items the
\* loop visits, none when the document type has no checklist
items_to_check(dt) ==
    IF dt \in DOMAIN CHECKLISTS THEN CHECKLISTS[dt] ELSE << >>

(***************************************************************************)
(* Core logic: annotate_docx                                               *)
(***************************************************************************)
WARNING_SIGN == "U+26A0"

EM_DASH == "U+2014"

\* f"[<warning sign> Missing: {requirement} <em dash> Related Law: {citation}]"
note_text(issue) ==
    <<"[", WARNING_SIGN>> \o <<" ","M","i","s","s","i","n","g",":"," ">> \o issue.requirement
        \o <<" ", EM_DASH>> \o <<" ","R","e","l","a","t","e","d"," ","L","a","w",":"," ">> \o issue.citation \o <<"]">>

\* any(word in para.text.lower() for word in words)
any_word_in(para_text, words) ==
    LET text_lower == lower(para_text)
    IN  \E w \in 1..Len(words) : Contains(text_lower, words[w])

\* `for para in doc.paragraphs: if any(...): ...; break`, from paragraph p on: the
\* paragraph the loop breaks at, 0 when it runs to the end
RECURSIVE first_paragraph_from(_, _, _)
first_paragraph_from(paras, words, p) ==
    IF p > Len(paras) THEN 0
    ELSE IF any_word_in(paras[p], words) THEN p
    ELSE first_paragraph_from(paras, words, p + 1)

\* the paragraph that gets the inline note for `requirement`, 0 when none does
first_paragraph_with_word(paras, requirement) ==
    first_paragraph_from(paras, split(lower(requirement)), 1)

\* one iteration of `for issue in issues`: the document's paragraph texts after it
annotate_issue(paras, issue) ==
    LET p == first_paragraph_with_word(paras, issue.requirement)
    IN  IF p > 0 THEN [paras EXCEPT ![p] = @ \o <<" ">> \o note_text(issue)]
        ELSE Append(paras, note_text(issue))

(***************************************************************************)
(* Sample inputs                                                           *)
(***************************************************************************)
\* page_content of documents the index may hold
PassageShort == <<"<","p",">","A","D","G","M"," ","C","o","m","p","a","n","i","e","s"," ","R","e",
        "g","u","l","a","t","i","o","n","s"," ","2","0","2","0",".","<","/","p",
        ">">>

PassageLong == Repeat(<<"r","e","g","i","s","t","r","a","t","i","o","n"," ">>, 20)

\* the indexes FAISS.load_local may have loaded
Vectorstores == { << >>, <<PassageShort>>, <<PassageLong>> }

\* uploaded documents, each the texts of its paragraphs
SampleDocs ==
    { << >>,
      << <<"M","e","m","o","r","a","n","d","u","m">> >>,
      << <<"S","h","a","r","e","h","o","l","d","e","r">> >>,
      << <<"S","E","R","V","I","C","E"," ","A","G","R","E","E","M","E","N","T">>, <<"P","a","y","m","e","n","t"," ","t","e","r","m","s">> >>,
      << <<"P","r","i","v","a","c","y"," ","P","o","l","i","c","y">>, <<"p","e","r","s","o","n","a","l"," ","d","a","t","a">> >> }

\* pieces the classifier's input texts are put together from
ClassifyChunks ==
    { <<"A","r","t","i","c","l","e","s"," ","o","f"," ","A","s","s","o","c","i","a","t",
        "i","o","n">>, <<"s","h","a","r","e","h","o","l","d","e","r">>, <<"s","h","a","r","e">>, <<"h","o","l","d","e","r">>,
      <<"S","E","R","V","I","C","E"," ","A","G","R","E","E","M","E","N","T">>, <<"p","a","y","m","e","n","t"," ","t","e","r","m","s">>, <<"P","r","i","v","a","c","y"," ","P","o","l","i","c","y">>,
      <<"p","e","r","s","o","n","a","l"," ","d","a","t","a">>, <<" ","p","r","o","t","e","c","t","i","o","n">>, <<" ">>, <<"b","o","a","r","d"," ","o","f","\n","d","i","r","e","c","t","o","r","s">> }

MaxChunks == 3

RECURSIVE concat(_)
concat(parts) == IF parts = << >> THEN << >> ELSE parts[1] \o concat(Tail(parts))

ClassifyTexts == {concat(cs) : cs \in StrUpTo(ClassifyChunks, MaxChunks)}

ShortenAlphabet == {"a", "b", " ", "."}

MaxTextLen == 4

MaxLimit == 3

(***************************************************************************)
(* State                                                                   *)
(***************************************************************************)
VARIABLES
    pc,             \* position in the script's run (lines 142-169)
    vectorstore,    \* the loaded index: page_content of each document
    paragraphs,     \* the uploaded file's paragraph texts
    full_text,      \* "\n".join(p.text for p in doc.paragraphs)
    doc_type,       \* detect_document_type(full_text)
    defined,        \* the module-level names bound so far
    item_idx,       \* run_checklist: position of the for loop in the checklist
    rc_issues,      \* run_checklist: its local list `issues`
    ratios,         \* run_checklist: the partial_ratio computed for each item so far
    searches,       \* number of similarity_search calls made
    search_raised,  \* whether a similarity_search call has raised
    issues,         \* module level: the list run_checklist returned
    ann_paras,      \* annotate_docx: paragraph texts of the document being annotated
    ann_idx,        \* annotate_docx: position of the for loop in `issues`
    ann_log,        \* annotate_docx: what was done for each issue so far
    annotated_file, \* the saved annotated document
    json_output,    \* the JSON report
    st_pc,          \* shorten_text: called / returned
    st_text,        \* shorten_text: argument text
    st_max_chars,   \* shorten_text: argument max_chars
    st_out          \* shorten_text: return value

vars == << pc, vectorstore, paragraphs, full_text, doc_type, defined, item_idx,
           rc_issues, ratios, searches, search_raised, issues, ann_paras, ann_idx,
           ann_log, annotated_file, json_output, st_pc, st_text, st_max_chars, st_out >>

flow_vars == << pc, vectorstore, paragraphs, full_text, doc_type, defined, item_idx,
                rc_issues, ratios, searches, search_raised, issues, ann_paras, ann_idx,
                ann_log, annotated_file, json_output >>

shorten_vars == << st_pc, st_text, st_max_chars, st_out >>

NoReport == [doc_type |-> "", issues |-> << >>]

\* the script before a file is uploaded
FlowIdle ==
    /\ pc = "idle"
    /\ paragraphs = << >>
    /\ full_text = << >>
    /\ doc_type = ""
    /\ defined = {}
    /\ item_idx = 0
    /\ rc_issues = << >>
    /\ ratios = << >>
    /\ searches = 0
    /\ search_raised = FALSE
    /\ issues = << >>
    /\ ann_paras = << >>
    /\ ann_idx = 0
    /\ ann_log = << >>
    /\ annotated_file = << >>
    /\ json_output = NoReport

ShortenIdle ==
    /\ st_pc = "idle"
    /\ st_text = << >>
    /\ st_max_chars = 0
    /\ st_out = << >>

Init ==
    /\ FlowIdle
    /\ vectorstore \in Vectorstores
    /\ ShortenIdle

(***************************************************************************)
(* The script's run on an uploaded file (lines 144-169)                    *)
(***************************************************************************)
\* doc = Document(uploaded_file); full_text = "\n".join(...)
Upload(d) ==
    /\ pc = "idle"
    /\ paragraphs' = d
    /\ full_text' = join(<<"\n">>, d)
    /\ defined' = {"doc", "full_text"}
    /\ pc' = "detect"
    /\ UNCHANGED << vectorstore, doc_type, item_idx, rc_issues, ratios, searches,
                    issues, ann_paras, ann_idx, ann_log, annotated_file, json_output >>
    /\ UNCHANGED search_raised
    /\ UNCHANGED shorten_vars

\* doc_type = detect_document_type(full_text)
DetectDocumentType ==
    /\ pc = "detect"
    /\ doc_type' = detect_document_type(full_text)
    /\ defined' = defined \cup {"doc_type"}
    /\ pc' = "run_checklist"
    /\ UNCHANGED << vectorstore, paragraphs, full_text, item_idx, rc_issues, ratios,
                    searches, issues, ann_paras, ann_idx, ann_log, annotated_file,
                    json_output >>
    /\ UNCHANGED search_raised
    /\ UNCHANGED shorten_vars

\* run_checklist(doc_type, full_text) is entered: issues = []
EnterRunChecklist ==
    /\ pc = "run_checklist"
    /\ rc_issues' = << >>
    /\ ratios' = << >>
    /\ item_idx' = 1
    /\ pc' = "for_item"
    /\ UNCHANGED << vectorstore, paragraphs, full_text, doc_type, defined, searches,
                    issues, ann_paras, ann_idx, ann_log, annotated_file, json_output >>
    /\ UNCHANGED search_raised
    /\ UNCHANGED shorten_vars

\* one iteration of `for item in CHECKLISTS[doc_type]` whose item is met
ItemMet(ratio) ==
    /\ pc = "for_item"
    /\ item_idx <= Len(items_to_check(doc_type))
    /\ ~is_missing(ratio)
    /\ ratios' = Append(ratios, ratio)
    /\ item_idx' = item_idx + 1
    /\ UNCHANGED << pc, vectorstore, paragraphs, full_text, doc_type, defined,
                    rc_issues, searches, issues, ann_paras, ann_idx, ann_log,
                    annotated_file, json_output >>
    /\ UNCHANGED search_raised
    /\ UNCHANGED shorten_vars

\* one iteration whose item is missing and whose similarity_search returns
ItemMissing(ratio) ==
    /\ pc = "for_item"
    /\ item_idx <= Len(items_to_check(doc_type))
    /\ is_missing(ratio)
    /\ \E results \in similarity_search(vectorstore) :
           rc_issues' = issues_append(rc_issues,
                            issue_record(items_to_check(doc_type)[item_idx], results))
    /\ searches' = searches + 1
    /\ ratios' = Append(ratios, ratio)
    /\ item_idx' = item_idx + 1
    /\ UNCHANGED << pc, vectorstore, paragraphs, full_text, doc_type, defined,
                    issues, ann_paras, ann_idx, ann_log, annotated_file, json_output >>
    /\ UNCHANGED search_raised
    /\ UNCHANGED shorten_vars

SearchRaisesSwallowed(ratio) ==
    /\ pc = "for_item"
    /\ item_idx <= Len(items_to_check(doc_type))
    /\ is_missing(ratio)
    /\ rc_issues' = issues_append(rc_issues,
                        issue_record(items_to_check(doc_type)[item_idx], << >>))
    /\ searches' = searches + 1
    /\ ratios' = Append(ratios, ratio)
    /\ search_raised' = TRUE
    /\ item_idx' = item_idx + 1
    /\ UNCHANGED << pc, vectorstore, paragraphs, full_text, doc_type, defined,
                    issues, ann_paras, ann_idx, ann_log, annotated_file, json_output >>
    /\ UNCHANGED shorten_vars

\* one iteration whose item is missing and whose similarity_search raises: nothing
\* in run_checklist or in the script catches it
SearchRaises(ratio) ==
    /\ pc = "for_item"
    /\ item_idx <= Len(items_to_check(doc_type))
    /\ is_missing(ratio)
    /\ searches' = searches + 1
    /\ ratios' = Append(ratios, ratio)
    /\ search_raised' = TRUE
    /\ pc' = "raised"
    /\ UNCHANGED << vectorstore, paragraphs, full_text, doc_type, defined, item_idx,
                    rc_issues, issues, ann_paras, ann_idx, ann_log, annotated_file,
                    json_output >>
    /\ UNCHANGED shorten_vars

\* return issues; then `if issues:` at line 153
ReturnIssues ==
    /\ pc = "for_item"
    /\ item_idx > Len(items_to_check(doc_type))
    /\ issues' = rc_issues
    /\ defined' = defined \cup {"issues"}
    /\ pc' = IF rc_issues # << >> THEN "annotate_docx" ELSE "done"
    /\ UNCHANGED << vectorstore, paragraphs, full_text, doc_type, item_idx, rc_issues,
                    ratios, searches, ann_paras, ann_idx, ann_log, annotated_file,
                    json_output >>
    /\ UNCHANGED search_raised
    /\ UNCHANGED shorten_vars

\* annotate_docx(uploaded_file, issues) is entered: doc = Document(uploaded_file)
EnterAnnotateDocx ==
    /\ pc = "annotate_docx"
    /\ ann_paras' = paragraphs
    /\ ann_idx' = 1
    /\ ann_log' = << >>
    /\ pc' = "for_issue"
    /\ UNCHANGED << vectorstore, paragraphs, full_text, doc_type, defined, item_idx,
                    rc_issues, ratios, searches, issues, annotated_file, json_output >>
    /\ UNCHANGED search_raised
    /\ UNCHANGED shorten_vars

\* one iteration of `for issue in issues`
AnnotateIssue ==
    /\ pc = "for_issue"
    /\ ann_idx <= Len(issues)
    /\ ann_paras' = annotate_issue(ann_paras, issues[ann_idx])
    /\ ann_log' = Append(ann_log,
                     IF Len(ann_paras') > Len(ann_paras)
                     THEN [kind |-> "standalone", para |-> Len(ann_paras')]
                     ELSE [kind |-> "inline",
                           para |-> CHOOSE p \in 1..Len(ann_paras) :
                                        ann_paras'[p] # ann_paras[p]])
    /\ ann_idx' = ann_idx + 1
    /\ UNCHANGED << pc, vectorstore, paragraphs, full_text, doc_type, defined, item_idx,
                    rc_issues, ratios, searches, issues, annotated_file, json_output >>
    /\ UNCHANGED search_raised
    /\ UNCHANGED shorten_vars

\* doc.save(output); return output; then json_output = json.dumps({...})
ReturnAnnotated ==
    /\ pc = "for_issue"
    /\ ann_idx > Len(issues)
    /\ annotated_file' = ann_paras
    /\ json_output' = [doc_type |-> doc_type, issues |-> issues]
    /\ defined' = defined \cup {"annotated_file", "json_output"}
    /\ pc' = "done"
    /\ UNCHANGED << vectorstore, paragraphs, full_text, doc_type, item_idx, rc_issues,
                    ratios, searches, issues, ann_paras, ann_idx, ann_log >>
    /\ UNCHANGED search_raised
    /\ UNCHANGED shorten_vars

Next ==
    \/ \E d \in SampleDocs : Upload(d)
    \/ DetectDocumentType
    \/ EnterRunChecklist
    \/ \E ratio \in FuzzRatios : ItemMet(ratio)
    \/ \E ratio \in FuzzRatios : ItemMissing(ratio)
    \/ \E ratio \in FuzzRatios : SearchRaises(ratio)
    \/ ReturnIssues
    \/ EnterAnnotateDocx
    \/ AnnotateIssue
    \/ ReturnAnnotated

Spec == Init /\ [][Next]_vars

(***************************************************************************)
(* detect_document_type on texts put together from keyword pieces          *)
(***************************************************************************)
InitClassify ==
    /\ pc = "detect"
    /\ paragraphs = << >>
    /\ full_text \in ClassifyTexts
    /\ doc_type = ""
    /\ defined = {"doc", "full_text"}
    /\ item_idx = 0
    /\ rc_issues = << >>
    /\ ratios = << >>
    /\ searches = 0
    /\ search_raised = FALSE
    /\ issues = << >>
    /\ ann_paras = << >>
    /\ ann_idx = 0
    /\ ann_log = << >>
    /\ annotated_file = << >>
    /\ json_output = NoReport
    /\ vectorstore = << >>
    /\ ShortenIdle

NextClassify == DetectDocumentType

SpecClassify == InitClassify /\ [][NextClassify]_vars

(***************************************************************************)
(* shorten_text on every short text and limit                              *)
(***************************************************************************)
InitShorten ==
    /\ FlowIdle
    /\ vectorstore = << >>
    /\ st_pc = "called"
    /\ st_text \in StrUpTo(ShortenAlphabet, MaxTextLen)
    /\ st_max_chars \in 0..MaxLimit
    /\ st_out = << >>

ShortenText ==
    /\ st_pc = "called"
    /\ st_out' = shorten_text(st_text, st_max_chars)
    /\ st_pc' = "returned"
    /\ UNCHANGED << st_text, st_max_chars >>
    /\ UNCHANGED flow_vars

NextShorten == ShortenText

SpecShorten == InitShorten /\ [][NextShorten]_vars

(***************************************************************************)
(* Properties                                                              *)
(***************************************************************************)
\* run_checklist has returned to the script
Returned == "issues" \in defined

\* the positions in `recs` of the records whose requirement is `item`
RecordsFor(recs, item) == {n \in 1..Len(recs) : recs[n].requirement = item}

\* the checklist items whose recorded ratio is below the threshold
MissingItems == {k \in 1..Len(ratios) : ratios[k] < 70}

\* whether s ends with "..."
EndsWithEllipsis(s) == Len(s) >= 3 /\ SubSeq(s, Len(s) - 2, Len(s)) = Ellipsis

\* C1: once run_checklist has returned for a document type that has a checklist,
\* every item whose partial_ratio is below 70 has exactly one IssueRecord and
\* every item whose partial_ratio is 70 or more has none.
C1_IssueIffBelowThreshold ==
    (Returned /\ doc_type \in DOMAIN CHECKLISTS) =>
        /\ Len(ratios) = Len(CHECKLISTS[doc_type])
        /\ \A k \in 1..Len(CHECKLISTS[doc_type]) :
               Cardinality(RecordsFor(issues, CHECKLISTS[doc_type][k]))
                   = IF ratios[k] < 70 THEN 1 ELSE 0
        /\ \A n \in 1..Len(issues) :
               \E k \in 1..Len(CHECKLISTS[doc_type]) :
                   issues[n].requirement = CHECKLISTS[doc_type][k]

C1_Witness ==
    /\ Returned
    /\ doc_type = Service
    /\ \E k \in 1..Len(ratios) : ratios[k] = 70
    /\ \E k \in 1..Len(ratios) : ratios[k] = 69

C3_LengthBound ==
    (st_pc = "returned") =>
        /\ Len(st_out) <= st_max_chars + 3
        /\ (Len(st_text) <= st_max_chars => st_out = st_text)

C3_Witness ==
    /\ st_pc = "returned"
    /\ Len(st_text) > st_max_chars
    /\ st_max_chars > 0
    /\ Len(st_out) = st_max_chars + 3

\* C4: in every IssueRecord of run_checklist the citation has at most 200
\* characters, and ends in an ellipsis when it differs from the full citation.
C4_CitationAtMost200 ==
    \A n \in 1..Len(rc_issues) :
        /\ Len(rc_issues[n].citation) <= 200
        /\ (rc_issues[n].citation # rc_issues[n].citation_full
                => EndsWithEllipsis(rc_issues[n].citation))

\* C5: when a similarity_search call raises, the run stops there: run_checklist
\* returns nothing, no report or annotated file is produced, and the item whose
\* search raised has no IssueRecord, whatever was already collected.
C5_SearchFailureAborts ==
    search_raised =>
        /\ pc = "raised"
        /\ ~ Returned
        /\ "json_output" \notin defined
        /\ "annotated_file" \notin defined
        /\ issues = << >>
        /\ json_output = NoReport
        /\ RecordsFor(rc_issues, items_to_check(doc_type)[item_idx]) = {}
        /\ Len(rc_issues) = searches - 1
        /\ ~ ENABLED Next

C5_Witness ==
    /\ search_raised
    /\ Len(rc_issues) >= 2
    /\ vectorstore # << >>

\* the position of `item` in the checklist `items` (0 when it is not there)
PositionIn(items, item) ==
    IF \E k \in 1..Len(items) : items[k] = item
    THEN CHOOSE k \in 1..Len(items) : items[k] = item
    ELSE 0

\* C6: the issues run_checklist returns follow the checklist's declared order,
\* one per missing item; when no item is met the issues are the whole checklist,
\* ten records in declared order.
C6_DeclaredOrder ==
    (Returned /\ doc_type \in DOMAIN CHECKLISTS) =>
        LET items == CHECKLISTS[doc_type]
        IN  /\ \A m, n \in 1..Len(issues) :
                   m < n => /\ PositionIn(items, issues[m].requirement) > 0
                            /\ PositionIn(items, issues[m].requirement)
                                   < PositionIn(items, issues[n].requirement)
            /\ Len(issues) = Cardinality(MissingItems)
            /\ (MissingItems = 1..Len(items) =>
                    /\ Len(issues) = 10
                    /\ \A k \in 1..10 : issues[k].requirement = items[k])

C6_Witness ==
    /\ Returned
    /\ doc_type = Privacy
    /\ MissingItems = 1..10
    /\ Len(issues) = 10

\* C7: for a document classified "Unknown" no checklist is applied: no
\* similarity_search call is made, run_checklist returns an empty list and the
\* run ends with an empty issue list.
C7_UnknownNoChecklist ==
    ("doc_type" \in defined /\ doc_type = Unknown) =>
        /\ searches = 0
        /\ ratios = << >>
        /\ rc_issues = << >>
        /\ issues = << >>
        /\ pc \in {"run_checklist", "for_item", "done"}
        /\ (Returned <=> pc = "done")

C7_Witness ==
    /\ doc_type = Unknown
    /\ paragraphs # << >>
    /\ Returned
    /\ pc = "done"

\* C8: when similarity_search returns no results (the index holds nothing), the
\* IssueRecord of each missing item has citation and citation_full equal to
\* "No citation found", and the loop goes on to the remaining items.
C8_NoCitationSentinel ==
    (vectorstore = << >>) =>
        /\ \A n \in 1..Len(rc_issues) :
               /\ rc_issues[n].citation = NoCitationFound
               /\ rc_issues[n].citation_full = NoCitationFound
        /\ (~ search_raised => Len(rc_issues) = Cardinality(MissingItems))
        /\ (Returned => Len(issues) = Cardinality(MissingItems))

C8_Witness ==
    /\ vectorstore = << >>
    /\ Returned
    /\ Len(issues) >= 2
    /\ \E k \in 1..Len(ratios) : ratios[k] = 70

\* whether the first max_chars characters of the text hold no period
NoPeriodInWindow == \A i \in 1..Len(SliceTo(st_text, st_max_chars)) : st_text[i] # "."

\* C9 (as stated): for len(text) > max_chars with no period in the first
\* max_chars characters, the result is exactly those characters followed by "...".
C9_RawTruncation ==
    (st_pc = "returned" /\ Len(st_text) > st_max_chars /\ NoPeriodInWindow) =>
        st_out = SliceTo(st_text, st_max_chars) \o Ellipsis

\* C9 (amended): for len(text) > max_chars with no period in the first max_chars
\* characters, the result is those characters with leading and trailing
\* whitespace removed, followed by "...".
C9_StrippedTruncation ==
    (st_pc = "returned" /\ Len(st_text) > st_max_chars /\ NoPeriodInWindow) =>
        /\ st_out = strip(SliceTo(st_text, st_max_chars)) \o Ellipsis
        /\ (\A i \in {1, st_max_chars} \cap 1..st_max_chars : st_text[i] \notin Whitespace)
               => st_out = SliceTo(st_text, st_max_chars) \o Ellipsis

C9_Witness ==
    /\ st_pc = "returned"
    /\ Len(st_text) > st_max_chars
    /\ NoPeriodInWindow
    /\ st_max_chars >= 2
    /\ st_text[st_max_chars] \in Whitespace
    /\ st_out = SubSeq(st_text, 1, st_max_chars - 1) \o Ellipsis

\* whether the paragraph text holds, as one of its whitespace-separated words,
\* a word of the requirement (both lower-cased)
HasWholeWord(para_text, requirement) ==
    \E w \in 1..Len(split(lower(requirement))) :
        \E v \in 1..Len(split(lower(para_text))) :
            split(lower(para_text))[v] = split(lower(requirement))[w]

\* the uploaded document's paragraphs that hold a whole word of the requirement
ParagraphsWithWord(requirement) ==
    {p \in 1..Len(paragraphs) : HasWholeWord(paragraphs[p], requirement)}

\* C10: annotate_docx adds one warning per issue, in order: inline in the first
\* paragraph of the document that contains a whole word of the item text, and a
\* standalone paragraph at the end of the document only when no paragraph does.
C10_InlineIffWholeWord ==
    (pc = "for_issue") =>
        /\ Len(ann_log) = ann_idx - 1
        /\ \A k \in 1..Len(ann_log) :
               LET hit == ParagraphsWithWord(issues[k].requirement)
               IN  IF hit # {}
                   THEN /\ ann_log[k].kind = "inline"
                        /\ ann_log[k].para = CHOOSE p \in hit : \A q \in hit : p <= q
                   ELSE /\ ann_log[k].kind = "standalone"
                        /\ ann_log[k].para > Len(paragraphs)

=============================================================================
